---- MODULE Spec2Model ----
(***************************************************************************)
(* A model of the SharePoint -> Azure Blob transfer service:               *)
(*   transfer_service.py  FileTransferService (the coordinator)            *)
(*   graph_api.py         SharePointGraphAPI  (the source client)          *)
(*   blob_upload.py       BlobUploadService   (the destination client)     *)
(*                                                                         *)
(* Every coroutine is cut at its await points: a network call is a request *)
(* put in flight by one action and a response taken by another, and the    *)
(* code between two awaits runs inside one action.  A string is a sequence *)
(* of pieces (one-character strings where the code looks at characters),   *)
(* an Optional value is the empty sequence (None) or a one-element         *)
(* sequence, a dict is a function on its keys.                             *)
(***************************************************************************)
EXTENDS Integers, Sequences, FiniteSets, TLC

\* ------------------------------------------------------------------ bounds
\* Entries of one directory listing response.
MaxItems == 2
\* Top-level calls made on one coordinator.
MaxCalls == 2
\* Calls made on a source client used on its own.
MaxClientCalls == 3

Coordinators == {1, 2}

\* ------------------------------------------------------- values and helpers
None == <<>>
Some(v) == <<v>>

\* Mutant: the test is "is not None", so an empty value passes.
Truthy_is_not_None(o) == o # None

\* Python truthiness of an Optional[str | bytes | list].
Truthy(o) == o # None /\ o[1] # <<>>

\* dict.get(key, default)
Get(d, key, default) == IF key \in DOMAIN d THEN d[key] ELSE default

Digit(d) ==
    CASE d = 0 -> "0" [] d = 1 -> "1" [] d = 2 -> "2" [] d = 3 -> "3"
      [] d = 4 -> "4" [] d = 5 -> "5" [] d = 6 -> "6" [] d = 7 -> "7"
      [] d = 8 -> "8" [] d = 9 -> "9"

RECURSIVE Str(_)
\* str(n) of a non-negative int: its decimal digits.
Str(n) == IF n < 10 THEN <<Digit(n)>> ELSE Str(n \div 10) \o <<Digit(n % 10)>>

RECURSIVE SplitFrom(_, _, _)
\* The scan of s.split('/'): done are the segments closed so far, current
\* the one being read.
SplitFrom(s, current, done) ==
    IF s = <<>> THEN Append(done, current)
    ELSE IF Head(s) = "/" THEN SplitFrom(Tail(s), <<>>, Append(done, current))
    ELSE SplitFrom(Tail(s), Append(current, Head(s)), done)

\* s.split('/') of a string given character by character.
Split(s) == SplitFrom(s, <<>>, <<>>)

\* datetime.now().isoformat(): the wall clock is read, never compared.
IsoNow == <<"<now>">>

\* A return to the caller: a value, or an exception on its way up.
Value(v) == [raised |-> FALSE, val |-> v]
Raise(e) == [raised |-> TRUE, val |-> e]

\* ------------------------------------------------------------ configuration
required_fields ==
    <<"tenant_id", "client_id", "client_secret", "sharepoint_site_url",
      "connection_string", "blob_container">>

RequiredSet == {required_fields[i] : i \in DOMAIN required_fields}

SiteUrlWithSite == <<"h", ":", "/", "/", "c", "/", "s", "i", "t", "e", "s", "/", "t">>
SiteUrlNoMarker == <<"h", ":", "/", "/", "c", "/", "x">>
SiteUrlMarkerLast == <<"h", ":", "/", "/", "c", "/", "s", "i", "t", "e", "s">>
SiteUrlEmptySite == <<"h", ":", "/", "/", "c", "/", "s", "i", "t", "e", "s", "/">>

\* The values a configuration may hold under a key it has; "" is <<>>.
ConfigValues(k) ==
    CASE k = "client_secret" -> {<<>>, <<"enc:", "s3cret">>}
      [] k = "connection_string" -> {<<>>, <<"enc:">>, <<"enc:", "AccountName=a;AccountKey=k">>}
      [] k = "sharepoint_site_url" -> {<<>>, SiteUrlWithSite}
      [] k = "tenant_id" -> {<<>>, <<"tenant">>}
      [] k = "client_id" -> {<<>>, <<"client">>}
      [] k = "blob_container" -> {<<>>, <<"files">>}

Configs ==
    UNION { {f \in [S -> UNION {ConfigValues(k) : k \in RequiredSet}] :
                \A k \in S : f[k] \in ConfigValues(k)} : S \in SUBSET RequiredSet }

\* A configuration that constructs: every key present, every secret decryptable.
GoodConfig(url) ==
    [tenant_id |-> <<"tenant">>, client_id |-> <<"client">>,
     client_secret |-> <<"enc:", "s3cret">>, sharepoint_site_url |-> url,
     connection_string |-> <<"enc:", "AccountName=a;AccountKey=k">>,
     blob_container |-> <<"files">>]

SiteUrls == {SiteUrlWithSite, SiteUrlNoMarker, SiteUrlMarkerLast, SiteUrlEmptySite}

\* ---------------------------------------------------------------- variables
VARIABLES
    config,             \* self.config of each coordinator
    graph_api,          \* self.graph_api: None or the SharePointGraphAPI fields
    blob_service,       \* self.blob_service: None or the BlobUploadService fields
    ctor_error,         \* the exception __init__ raised, None when none
    decrypt_calls,      \* decrypt_string calls made by __init__
    pc,                 \* the call stack of each coordinator's flow, top first
    ret,                \* what the last returned callee handed back
    result,             \* what the last top-level call handed to its caller
    calls,              \* top-level calls made so far
    folder_path,        \* transfer_files / list_files argument
    file_id,            \* download_file argument
    um_args,            \* upload_with_metadata arguments
    files,              \* transfer_files locals
    idx,
    transferred_count,
    failed_files,
    file_data,
    sharepoint_status,  \* test_connection local
    inflight,           \* requests each coordinator has outstanding
    containers,         \* the destination account: names of existing containers
    faults,             \* whether the network and the services may fail
    download_log,       \* history: positions of the files download_file was called for
    fate,               \* history: per processed file, what its client calls gave
    writes,             \* history: objects this call wrote
    ensured,            \* history: what the account answered about the container
    listed,             \* history: the names list_files gave this call, None if none
    checks,             \* history: what the two connection checks gave
    got,                \* history: per downloaded file, the content download_file gave
    listing,            \* history: what the list_files call heard, until its caller resumes
    token_ok            \* history: a token request of this client has succeeded

cfgVars == <<config, blob_service, ctor_error, decrypt_calls>>
argVars == <<folder_path, file_id, um_args>>
tfLocals == <<files, idx, transferred_count, failed_files, file_data>>
callVars == <<download_log, fate, writes, ensured, listed, checks>>
heardVars == <<got, listing, token_ok>>
histVars == <<download_log, fate, writes, ensured, listed, checks, got, listing, token_ok>>
vars ==
    <<config, graph_api, blob_service, ctor_error, decrypt_calls, pc, ret, result,
      calls, folder_path, file_id, um_args, files, idx, transferred_count,
      failed_files, file_data, sharepoint_status, inflight, containers, faults,
      download_log, fate, writes, ensured, listed, checks, got, listing, token_ok>>

\* ----------------------------------------------------------- control helpers
At(c, label) == pc[c] # <<>> /\ Head(pc[c]) = label
Goto(c, label) == pc' = [pc EXCEPT ![c] = <<label>> \o Tail(@)]
Call(c, callee, resume) == pc' = [pc EXCEPT ![c] = <<callee, resume>> \o Tail(@)]
Return(c, r) ==
    /\ pc' = [pc EXCEPT ![c] = Tail(@)]
    /\ ret' = [ret EXCEPT ![c] = r]

Send(c, request) == inflight' = [inflight EXCEPT ![c] = @ \cup {request}]
\* Mutant: the flow goes on without awaiting the response.
Receive_not_awaited(c, op) == UNCHANGED inflight

\* The await ends: the response is in and the request is no longer outstanding.
Receive(c, op) == inflight' = [inflight EXCEPT ![c] = {r \in @ : r.op # op}]
Swap(c, op, request) ==
    inflight' = [inflight EXCEPT ![c] = {r \in @ : r.op # op} \cup {request}]

\* ------------------------------------------------------------- construction
\* utils.encryption.decrypt_string: a ciphertext is "enc:" + plaintext;
\* anything else is rejected.
decrypt_string(ciphertext) ==
    IF ciphertext # <<>> /\ Head(ciphertext) = "enc:"
    THEN Value(Tail(ciphertext))
    ELSE Raise(<<"InvalidToken">>)

\* Mutant: the scan stops at the first missing field.
missing_fields_first_only(cfg) ==
    LET all == SelectSeq(required_fields, LAMBDA f : f \notin DOMAIN cfg)
    IN  IF all = <<>> THEN <<>> ELSE <<Head(all)>>

\* _validate_config's list comprehension.
missing_fields(cfg) == SelectSeq(required_fields, LAMBDA f : f \notin DOMAIN cfg)

NewSharePointGraphAPI(tenant, client, secret, url) ==
    [tenant_id |-> tenant, client_id |-> client, client_secret |-> secret,
     site_url |-> url, access_token |-> None,
     base_url |-> <<"https://graph.microsoft.com/v1.0">>]

\* BlobServiceClient.from_connection_string rejects a blank connection string.
NewBlobUploadService(conn) ==
    IF conn = <<>>
    THEN Raise(<<"ValueError: Connection string is either blank or malformed.">>)
    ELSE Value([connection_string |-> conn])

\* __init__ up to the end of _validate_config.
_validate_config(c) ==
    /\ At(c, "__init__")
    /\ LET missing == missing_fields(config[c])
       IN  IF missing # <<>>
           THEN /\ ctor_error' = [ctor_error EXCEPT ![c] =
                        Some([type |-> "ValueError", fields |-> missing])]
                /\ pc' = [pc EXCEPT ![c] = <<"unconstructed">>]
           ELSE /\ Goto(c, "_initialize_services")
                /\ UNCHANGED ctor_error
    /\ UNCHANGED <<config, graph_api, blob_service, decrypt_calls, ret, result, calls,
                   argVars, tfLocals, sharepoint_status, inflight, containers, faults,
                   histVars>>

\* _initialize_services: two decryptions, then the two clients; any failure
\* is logged and raised again.
_initialize_services(c) ==
    /\ At(c, "_initialize_services")
    /\ LET secret == decrypt_string(config[c]["client_secret"])
           conn == decrypt_string(config[c]["connection_string"])
           blob == NewBlobUploadService(conn.val)
           graph == NewSharePointGraphAPI(config[c]["tenant_id"], config[c]["client_id"],
                                          secret.val, config[c]["sharepoint_site_url"])
       IN  IF secret.raised
           THEN /\ decrypt_calls' = [decrypt_calls EXCEPT ![c] = 1]
                /\ ctor_error' = [ctor_error EXCEPT ![c] =
                        Some([type |-> "Exception", fields |-> secret.val])]
                /\ pc' = [pc EXCEPT ![c] = <<"unconstructed">>]
                /\ UNCHANGED <<graph_api, blob_service>>
           ELSE IF conn.raised
           THEN /\ decrypt_calls' = [decrypt_calls EXCEPT ![c] = 2]
                /\ ctor_error' = [ctor_error EXCEPT ![c] =
                        Some([type |-> "Exception", fields |-> conn.val])]
                /\ pc' = [pc EXCEPT ![c] = <<"unconstructed">>]
                /\ UNCHANGED <<graph_api, blob_service>>
           ELSE IF blob.raised
           THEN /\ decrypt_calls' = [decrypt_calls EXCEPT ![c] = 2]
                /\ graph_api' = [graph_api EXCEPT ![c] = Some(graph)]
                /\ ctor_error' = [ctor_error EXCEPT ![c] =
                        Some([type |-> "Exception", fields |-> blob.val])]
                /\ pc' = [pc EXCEPT ![c] = <<"unconstructed">>]
                /\ UNCHANGED blob_service
           ELSE /\ decrypt_calls' = [decrypt_calls EXCEPT ![c] = 2]
                /\ graph_api' = [graph_api EXCEPT ![c] = Some(graph)]
                /\ blob_service' = [blob_service EXCEPT ![c] = Some(blob.val)]
                /\ pc' = [pc EXCEPT ![c] = <<"idle">>]
                /\ UNCHANGED ctor_error
    /\ UNCHANGED <<config, ret, result, calls, argVars, tfLocals, sharepoint_status,
                   inflight, containers, faults, histVars>>

\* ------------------------------------------------- graph_api.py: the source
Token(c) == graph_api[c][1].access_token

\* What the identity provider may answer to the client-credentials POST.
TokenResponses ==
    {[kind |-> "response", status |-> 200, json |-> [access_token |-> <<"tok">>]]}
    \cup (IF faults
          THEN {[kind |-> "response", status |-> 200, json |-> [token_type |-> <<"Bearer">>]],
                [kind |-> "response", status |-> 401, json |-> [error |-> <<"invalid_client">>]],
                [kind |-> "error", status |-> 0, json |-> [error |-> <<"ClientError">>]]}
          ELSE {})

TokenRequest(g) ==
    [op |-> "token",
     url |-> <<"https://login.microsoftonline.com/">> \o g.tenant_id \o <<"/oauth2/v2.0/token">>,
     data |-> [grant_type |-> <<"client_credentials">>, client_id |-> g.client_id,
               client_secret |-> g.client_secret,
               scope |-> <<"https://graph.microsoft.com/.default">>]]

\* get_access_token up to session.post.
get_access_token(c) ==
    /\ At(c, "get_access_token")
    /\ Send(c, TokenRequest(graph_api[c][1]))
    /\ Goto(c, "get_access_token_post")
    /\ UNCHANGED <<cfgVars, graph_api, ret, result, calls, argVars, tfLocals,
                   sharepoint_status, containers, faults, histVars>>

\* get_access_token from the response on: 200 stores and returns
\* token_data.get('access_token'); anything else returns None.
get_access_token_post(c) ==
    /\ At(c, "get_access_token_post")
    /\ \E r \in TokenResponses :
         IF r.kind = "response" /\ r.status = 200
         THEN LET token == IF "access_token" \in DOMAIN r.json
                           THEN Some(r.json["access_token"]) ELSE None
              IN  /\ graph_api' = [graph_api EXCEPT ![c][1].access_token = token]
                  /\ Return(c, Value(token))
                  /\ token_ok' = [token_ok EXCEPT ![c] = @ \/ Truthy(token)]
         ELSE /\ Return(c, Value(None))
              /\ UNCHANGED <<graph_api, token_ok>>
    /\ Receive(c, "token")
    /\ UNCHANGED <<cfgVars, result, calls, argVars, tfLocals, sharepoint_status,
                   containers, faults, callVars, got, listing>>

sites == <<"s", "i", "t", "e", "s">>

\* _extract_site_id_from_url: the segment after the first 'sites' segment.
_extract_site_id_from_url(site_url) ==
    LET parts == Split(site_url)
    IN  IF \E i \in DOMAIN parts : parts[i] = sites
        THEN LET site_index == CHOOSE i \in DOMAIN parts :
                                  /\ parts[i] = sites
                                  /\ \A j \in DOMAIN parts : parts[j] = sites => i <= j
             IN  IF site_index + 1 <= Len(parts) THEN Some(parts[site_index + 1]) ELSE None
        ELSE None

\* The entries a folder of the document library may hold.
Items ==
    {[id |-> <<"1">>, name |-> <<"a.txt">>, file |-> TRUE, size |-> 1,
      lastModifiedDateTime |-> <<"2024-01-01T00:00:00Z">>, webUrl |-> <<"w/a.txt">>],
     [id |-> <<"2">>, name |-> <<"b.txt">>, file |-> TRUE],
     [id |-> <<"3">>, name |-> <<"docs">>, folder |-> TRUE],
     [id |-> <<"4">>, name |-> <<"c.txt">>, file |-> TRUE, size |-> 12]}

Listings ==
    {s \in UNION {[1..n -> Items] : n \in 0..MaxItems} :
        \A i, j \in DOMAIN s : i # j => s[i].id # s[j].id}

ListingResponses ==
    {[kind |-> "response", status |-> 200, json |-> [value |-> l]] : l \in Listings}
    \cup (IF faults
          THEN {[kind |-> "response", status |-> 200, json |-> [error |-> <<>>]],
                [kind |-> "response", status |-> 404, json |-> [error |-> <<>>]],
                [kind |-> "error", status |-> 0, json |-> [error |-> <<>>]],
                [kind |-> "uncaught", status |-> 0, json |-> [error |-> <<>>]]}
          ELSE {})

\* History: list_files was not called, or was called and heard nothing yet.
NothingHeard(kind) == [kind |-> kind, status |-> 0, json |-> [error |-> <<>>]]

\* The dict list_files builds for one item of the response.
FileEntry(item) ==
    [id |-> item.id, name |-> item.name, size |-> Get(item, "size", 0),
     last_modified |-> IF "lastModifiedDateTime" \in DOMAIN item
                       THEN Some(item.lastModifiedDateTime) ELSE None,
     web_url |-> IF "webUrl" \in DOMAIN item THEN Some(item.webUrl) ELSE None]

\* Mutant: the file test is dropped and every item is listed.
IsFile_any(item) == TRUE

\* if item.get('file')
IsFile(item) == Get(item, "file", FALSE)

RECURSIVE FileEntries(_)
\* The loop over data.get('value', []).
FileEntries(value) ==
    IF value = <<>> THEN <<>>
    ELSE (IF IsFile(Head(value)) THEN <<FileEntry(Head(value))>> ELSE <<>>)
         \o FileEntries(Tail(value))

ListUrl(g, site_id, path) ==
    IF path = <<"/">>
    THEN g.base_url \o <<"/sites/">> \o site_id \o <<"/drive/root/children">>
    ELSE g.base_url \o <<"/sites/">> \o site_id \o <<"/drive/root:/">> \o path \o <<":/children">>

Bearer(g) == <<"Bearer ">> \o g.access_token[1]

\* list_files after the token step: no token or no site id returns [],
\* otherwise the GET is sent.
list_files_get(c) ==
    LET g == graph_api[c][1]
        site_id == _extract_site_id_from_url(g.site_url)
    IN  IF ~Truthy(g.access_token) \/ ~Truthy(site_id)
        THEN /\ Return(c, Value(<<>>))
             /\ UNCHANGED inflight
        ELSE /\ Send(c, [op |-> "list", url |-> ListUrl(g, site_id[1], folder_path[c]),
                         headers |-> [Authorization |-> Bearer(g)]])
             /\ Goto(c, "list_files_response")
             /\ UNCHANGED ret

\* list_files entry: a missing token is requested first.
list_files(c) ==
    /\ At(c, "list_files")
    /\ IF ~Truthy(Token(c))
       THEN /\ Call(c, "get_access_token", "list_files_token")
            /\ UNCHANGED <<ret, inflight>>
       ELSE list_files_get(c)
    /\ listing' = [listing EXCEPT ![c] = NothingHeard("called")]
    /\ UNCHANGED <<cfgVars, graph_api, result, calls, argVars, tfLocals,
                   sharepoint_status, containers, faults, callVars, got, token_ok>>

\* list_files resumed after await self.get_access_token().
list_files_token(c) ==
    /\ At(c, "list_files_token")
    /\ list_files_get(c)
    /\ UNCHANGED <<cfgVars, graph_api, result, calls, argVars, tfLocals,
                   sharepoint_status, containers, faults, histVars>>

\* list_files from the response on.  "uncaught" is an exception the method's
\* own handler does not contain (one raised while it handles the first).
list_files_response(c) ==
    /\ At(c, "list_files_response")
    /\ \E r \in ListingResponses :
         /\ IF r.kind = "uncaught" THEN Return(c, Raise(<<"list_files">>))
            ELSE IF r.kind = "response" /\ r.status = 200
            THEN Return(c, Value(FileEntries(Get(r.json, "value", <<>>))))
            ELSE Return(c, Value(<<>>))
         /\ listing' = [listing EXCEPT ![c] = r]
    /\ Receive(c, "list")
    /\ UNCHANGED <<cfgVars, graph_api, result, calls, argVars, tfLocals,
                   sharepoint_status, containers, faults, callVars, got, token_ok>>

\* Contents a file of the library may have.
Bytes(n) == [i \in 1..n |-> 0]
Contents == {Bytes(0), Bytes(1), Bytes(12)}

DownloadResponses ==
    {[kind |-> "response", status |-> 200, body |-> b] : b \in Contents}
    \cup (IF faults
          THEN {[kind |-> "response", status |-> 404, body |-> <<>>],
                [kind |-> "error", status |-> 0, body |-> <<>>],
                [kind |-> "uncaught", status |-> 0, body |-> <<>>]}
          ELSE {})

\* download_file after the token step.
download_file_get(c) ==
    LET g == graph_api[c][1]
        site_id == _extract_site_id_from_url(g.site_url)
    IN  IF ~Truthy(g.access_token) \/ ~Truthy(site_id)
        THEN /\ Return(c, Value(None))
             /\ UNCHANGED inflight
        ELSE /\ Send(c, [op |-> "download",
                         url |-> g.base_url \o <<"/sites/">> \o site_id[1]
                                 \o <<"/drive/items/">> \o file_id[c] \o <<"/content">>,
                         headers |-> [Authorization |-> Bearer(g)]])
             /\ Goto(c, "download_file_response")
             /\ UNCHANGED ret

download_file(c) ==
    /\ At(c, "download_file")
    /\ IF ~Truthy(Token(c))
       THEN /\ Call(c, "get_access_token", "download_file_token")
            /\ UNCHANGED <<ret, inflight>>
       ELSE download_file_get(c)
    /\ UNCHANGED <<cfgVars, graph_api, result, calls, argVars, tfLocals,
                   sharepoint_status, containers, faults, histVars>>

download_file_token(c) ==
    /\ At(c, "download_file_token")
    /\ download_file_get(c)
    /\ UNCHANGED <<cfgVars, graph_api, result, calls, argVars, tfLocals,
                   sharepoint_status, containers, faults, histVars>>

download_file_response(c) ==
    /\ At(c, "download_file_response")
    /\ \E r \in DownloadResponses :
         IF r.kind = "uncaught" THEN Return(c, Raise(<<"download_file">>))
         ELSE IF r.kind = "response" /\ r.status = 200
         THEN Return(c, Value(Some(r.body)))
         ELSE Return(c, Value(None))
    /\ Receive(c, "download")
    /\ UNCHANGED <<cfgVars, graph_api, result, calls, argVars, tfLocals,
                   sharepoint_status, containers, faults, histVars>>

\* SharePointGraphAPI.test_connection: asks for a token.
graph_test_connection(c) ==
    /\ At(c, "graph_test_connection")
    /\ Call(c, "get_access_token", "graph_test_connection_token")
    /\ UNCHANGED <<cfgVars, graph_api, ret, result, calls, argVars, tfLocals,
                   sharepoint_status, inflight, containers, faults, histVars>>

\* return token is not None
graph_test_connection_token(c) ==
    /\ At(c, "graph_test_connection_token")
    /\ \E uncaught \in (IF faults THEN BOOLEAN ELSE {FALSE}) :
         IF uncaught THEN Return(c, Raise(<<"test_connection">>))
         ELSE Return(c, Value(ret[c].val # None))
    /\ UNCHANGED <<cfgVars, graph_api, result, calls, argVars, tfLocals,
                   sharepoint_status, inflight, containers, faults, histVars>>

\* ------------------------------------------- blob_upload.py: the destination
AzureError(status) == [type |-> "AzureError", status_code |-> status]

\* What container_client.get_container_properties may give for a container:
\* its properties when it exists, ResourceNotFoundError (404) when it does
\* not; a failing service adds an HTTP error, a transport error (an
\* AzureError without status_code) and an error outside the Azure hierarchy.
PropertiesOutcomes(name) ==
    (IF name \in containers
     THEN {[ok |-> TRUE, error |-> [type |-> "none"]]}
     ELSE {[ok |-> FALSE, error |-> AzureError(404)]})
    \cup (IF faults
          THEN {[ok |-> FALSE, error |-> AzureError(503)],
                [ok |-> FALSE, error |-> [type |-> "AzureError"]],
                [ok |-> FALSE, error |-> [type |-> "Exception"]]}
          ELSE {})

\* What container_client.create_container may give: the container is made
\* when it is absent, ResourceExistsError (409) when it is already there.
CreateOutcomes(name) ==
    (IF name \in containers
     THEN {[ok |-> FALSE, error |-> AzureError(409)]}
     ELSE {[ok |-> TRUE, error |-> [type |-> "none"]]})
    \cup (IF faults THEN {[ok |-> FALSE, error |-> AzureError(503)]} ELSE {})

\* What blob_client.upload_blob(overwrite=True) may give.
UploadOutcomes(name) ==
    (IF name \in containers
     THEN {[ok |-> TRUE, error |-> [type |-> "none"]]}
     ELSE {[ok |-> FALSE, error |-> AzureError(404)]})
    \cup (IF faults
          THEN {[ok |-> FALSE, error |-> AzureError(503)],
                [ok |-> FALSE, error |-> [type |-> "uncaught"]]}
          ELSE {})

\* Mutant: every error of the check other than 404 is swallowed.
_ensure_container_exists_swallowing(outcome) ==
    IF outcome.ok THEN "exists"
    ELSE IF outcome.error = AzureError(404) THEN "create" ELSE "exists"

\* _ensure_container_exists on the outcome of get_container_properties:
\* go on, create the container, or let the exception out.
_ensure_container_exists(outcome) ==
    IF outcome.ok THEN "exists"
    ELSE IF outcome.error.type = "AzureError"
    THEN IF "status_code" \in DOMAIN outcome.error
         THEN IF outcome.error.status_code = 404 THEN "create" ELSE "raise"
         ELSE "raise"
    ELSE "raise"

\* The claim-side reading of an answer to get_container_properties, kept as
\* history: the container is there, is reported missing, or the check failed.
Observed(o) ==
    IF o.ok THEN "exists" ELSE IF o.error = AzureError(404) THEN "missing" ELSE "error"

UploadRequest(a) ==
    [op |-> "upload_blob", container |-> a.container_name, blob |-> a.blob_name,
     data |-> a.file_data, overwrite |-> TRUE, metadata |-> a.metadata]

\* upload_with_metadata up to the await inside _ensure_container_exists.
upload_with_metadata(c) ==
    /\ At(c, "upload_with_metadata")
    /\ Send(c, [op |-> "get_container_properties", container |-> um_args[c].container_name])
    /\ Goto(c, "get_container_properties")
    /\ ensured' = [ensured EXCEPT ![c] = "unchecked"]
    /\ UNCHANGED <<cfgVars, graph_api, ret, result, calls, argVars, tfLocals,
                   sharepoint_status, containers, faults, download_log, fate, writes, listed,
                   checks, heardVars>>

\* From the answer of get_container_properties to the next await: the upload
\* when the container is there, create_container on a 404, and the except
\* clause of upload_with_metadata (return False) on anything else.
get_container_properties(c) ==
    /\ At(c, "get_container_properties")
    /\ \E o \in PropertiesOutcomes(um_args[c].container_name) :
         /\ LET step == _ensure_container_exists(o)
            IN  IF step = "exists"
                THEN /\ Swap(c, "get_container_properties", UploadRequest(um_args[c]))
                     /\ Goto(c, "upload_blob")
                     /\ UNCHANGED ret
                ELSE IF step = "create"
                THEN /\ Swap(c, "get_container_properties",
                             [op |-> "create_container",
                              container |-> um_args[c].container_name])
                     /\ Goto(c, "create_container")
                     /\ UNCHANGED ret
                ELSE /\ Receive(c, "get_container_properties")
                     /\ Return(c, Value(FALSE))
         /\ ensured' = [ensured EXCEPT ![c] = Observed(o)]
    /\ UNCHANGED <<cfgVars, graph_api, result, calls, argVars, tfLocals,
                   sharepoint_status, containers, faults, download_log, fate, writes,
                   listed, checks, heardVars>>

\* From the answer of create_container on: the upload, or return False.
create_container(c) ==
    /\ At(c, "create_container")
    /\ \E o \in CreateOutcomes(um_args[c].container_name) :
         /\ IF o.ok
            THEN /\ containers' = containers \cup {um_args[c].container_name}
                 /\ Swap(c, "create_container", UploadRequest(um_args[c]))
                 /\ Goto(c, "upload_blob")
                 /\ UNCHANGED ret
            ELSE /\ Receive(c, "create_container")
                 /\ Return(c, Value(FALSE))
                 /\ UNCHANGED containers
         /\ ensured' = [ensured EXCEPT ![c] = IF o.ok THEN "created" ELSE "not created"]
    /\ UNCHANGED <<cfgVars, graph_api, result, calls, argVars, tfLocals,
                   sharepoint_status, faults, download_log, fate, writes, listed, checks, heardVars>>

\* From the answer of upload_blob on: True, or False from the except clause.
\* "uncaught" is an exception that clause does not contain.
upload_blob(c) ==
    /\ At(c, "upload_blob")
    /\ \E o \in UploadOutcomes(um_args[c].container_name) :
         IF o.ok
         THEN /\ writes' = [writes EXCEPT ![c] = Append(@, UploadRequest(um_args[c]))]
              /\ Return(c, Value(TRUE))
         ELSE /\ IF o.error.type = "uncaught"
                 THEN Return(c, Raise(<<"upload_with_metadata">>))
                 ELSE Return(c, Value(FALSE))
              /\ UNCHANGED writes
    /\ Receive(c, "upload_blob")
    /\ UNCHANGED <<cfgVars, graph_api, result, calls, argVars, tfLocals,
                   sharepoint_status, containers, faults, download_log, fate, ensured, listed,
                   checks, heardVars>>

\* --------------------------------------- transfer_service.py: the coordinator
FolderPaths == {<<"/">>, <<"Docs", "/", "2024">>}

\* What a caller holds of its call: nothing yet, or what came back.
NoResult == [op |-> "none", done |-> FALSE, raised |-> FALSE, val |-> <<>>]
Pending(op) == [op |-> op, done |-> FALSE, raised |-> FALSE, val |-> <<>>]

\* The dict returned when the listing is empty.
EmptyListingOutcome ==
    [success |-> TRUE, message |-> <<"No files found for transfer">>,
     transferred_count |-> 0]

\* Mutant: the final dict reports the files processed, not the files uploaded.
CompletedOutcome_counts_processed(count, failed) ==
    [success |-> TRUE,
     message |-> <<"Transfer completed, success: ">> \o Str(count)
                 \o <<", failed: ">> \o Str(Len(failed)),
     transferred_count |-> count + Len(failed), failed_files |-> failed,
     timestamp |-> IsoNow]

\* The dict returned after the loop.
CompletedOutcome(count, failed) ==
    [success |-> TRUE,
     message |-> <<"Transfer completed, success: ">> \o Str(count)
                 \o <<", failed: ">> \o Str(Len(failed)),
     transferred_count |-> count, failed_files |-> failed, timestamp |-> IsoNow]

\* Mutant: the outer except clause reports a failure without its cause.
ErrorOutcome_generic(e) ==
    [success |-> FALSE, message |-> <<"Transfer failed">>,
     transferred_count |-> 0, failed_files |-> <<>>, timestamp |-> IsoNow]

\* The dict returned by the outer except clause.
ErrorOutcome(e) ==
    [success |-> FALSE, message |-> <<"Transfer failed: ">> \o e,
     transferred_count |-> 0, failed_files |-> <<>>, timestamp |-> IsoNow]

\* Mutant: the outer except clause logs and raises again.
transfer_files_except_reraise(e) == Raise(e)

\* The outer "except Exception" of transfer_files: it returns, it does not raise.
transfer_files_except(e) == Value(ErrorOutcome(e))

\* Mutant: a failed file ends the loop ("break" for "continue").
ContinueAfterFailure_break(i, n) == n + 1

\* "continue", and the end of the inner except clause: on with the next file.
ContinueAfterFailure(i, n) == i + 1

\* failed_files.append(file_info['name'])
AppendFailed(failed, file_info) == Append(failed, file_info.name)

\* Mutant: an upload that returns False is not recorded as failed.
AfterUpload_false_unrecorded(r, count, failed, file_info) ==
    IF r.raised
    THEN [count |-> count, failed |-> Append(failed, file_info.name), ok |-> FALSE]
    ELSE IF r.val THEN [count |-> count + 1, failed |-> failed, ok |-> TRUE]
    ELSE [count |-> count, failed |-> failed, ok |-> FALSE]

\* The branch on the upload's answer: what becomes of the two tallies.
AfterUpload(r, count, failed, file_info) ==
    IF r.raised
    THEN [count |-> count, failed |-> AppendFailed(failed, file_info), ok |-> FALSE]
    ELSE IF r.val THEN [count |-> count + 1, failed |-> failed, ok |-> TRUE]
    ELSE [count |-> count, failed |-> AppendFailed(failed, file_info), ok |-> FALSE]

\* Mutant: file_size is taken from the listing's size, not from the bytes.
Metadata_listed_size(file_info, data) ==
    [source |-> <<"sharepoint">>, original_name |-> file_info.name,
     upload_time |-> IsoNow, file_size |-> Str(file_info.size),
     transfer_service |-> <<"FileTransferService">>,
     sharepoint_modified_time |-> Get(file_info, "lastModifiedDateTime", <<>>)]

\* The metadata dict built for one file.
Metadata(file_info, data) ==
    [source |-> <<"sharepoint">>, original_name |-> file_info.name,
     upload_time |-> IsoNow, file_size |-> Str(Len(data)),
     transfer_service |-> <<"FileTransferService">>,
     sharepoint_modified_time |-> Get(file_info, "lastModifiedDateTime", <<>>)]

BlobName(file_info) == <<"sharepoint/">> \o file_info.name

\* A top-level call returns to its caller: the flow is idle again and the
\* frame's locals are gone.
Finish(c, op, r) ==
    /\ result' = [result EXCEPT ![c] =
                     [op |-> op, done |-> TRUE, raised |-> r.raised, val |-> r.val]]
    /\ pc' = [pc EXCEPT ![c] = <<"idle">>]
    /\ files' = [files EXCEPT ![c] = <<>>]
    /\ idx' = [idx EXCEPT ![c] = 0]
    /\ transferred_count' = [transferred_count EXCEPT ![c] = 0]
    /\ failed_files' = [failed_files EXCEPT ![c] = <<>>]
    /\ file_data' = [file_data EXCEPT ![c] = <<>>]
    /\ sharepoint_status' = [sharepoint_status EXCEPT ![c] = FALSE]
    /\ ret' = [ret EXCEPT ![c] = Value(<<>>)]

NoChecks == [source |-> "none", destination |-> "none"]

ResetHistory(c) ==
    /\ download_log' = [download_log EXCEPT ![c] = <<>>]
    /\ fate' = [fate EXCEPT ![c] = <<>>]
    /\ writes' = [writes EXCEPT ![c] = <<>>]
    /\ ensured' = [ensured EXCEPT ![c] = "unchecked"]
    /\ listed' = [listed EXCEPT ![c] = None]
    /\ checks' = [checks EXCEPT ![c] = NoChecks]
    /\ got' = [got EXCEPT ![c] = <<>>]
    /\ listing' = [listing EXCEPT ![c] = NothingHeard("uncalled")]
    /\ UNCHANGED token_ok

\* The names of a list of file dicts, kept as history.
Names(fs) == [i \in DOMAIN fs |-> fs[i].name]

\* A caller invokes transfer_files(folder_path); the first await is list_files.
transfer_files(c) ==
    /\ At(c, "idle")
    /\ calls[c] < MaxCalls
    /\ calls' = [calls EXCEPT ![c] = @ + 1]
    /\ \E path \in FolderPaths : folder_path' = [folder_path EXCEPT ![c] = path]
    /\ pc' = [pc EXCEPT ![c] = <<"list_files", "transfer_files_listed">>]
    /\ result' = [result EXCEPT ![c] = Pending("transfer_files")]
    /\ ResetHistory(c)
    /\ UNCHANGED <<cfgVars, graph_api, ret, file_id, um_args, tfLocals,
                   sharepoint_status, inflight, containers, faults>>

\* transfer_files resumed with the listing: the outer except clause when the
\* call raised, the early return when there is nothing, else the loop.
transfer_files_listed(c) ==
    /\ At(c, "transfer_files_listed")
    /\ IF ret[c].raised
       THEN Finish(c, "transfer_files", transfer_files_except(ret[c].val))
       ELSE IF ret[c].val = <<>>
       THEN Finish(c, "transfer_files", Value(EmptyListingOutcome))
       ELSE /\ files' = [files EXCEPT ![c] = ret[c].val]
            /\ idx' = [idx EXCEPT ![c] = 1]
            /\ transferred_count' = [transferred_count EXCEPT ![c] = 0]
            /\ failed_files' = [failed_files EXCEPT ![c] = <<>>]
            /\ Goto(c, "transfer_files_loop")
            /\ UNCHANGED <<ret, result, file_data, sharepoint_status>>
    /\ listed' = [listed EXCEPT ![c] =
                     IF ret[c].raised THEN None ELSE Some(Names(ret[c].val))]
    /\ listing' = [listing EXCEPT ![c] = NothingHeard("uncalled")]
    /\ UNCHANGED <<cfgVars, graph_api, calls, argVars, inflight, containers, faults,
                   download_log, fate, writes, ensured, checks, got, token_ok>>

\* The head of "for file_info in files": the next download, or the final dict.
transfer_files_loop(c) ==
    /\ At(c, "transfer_files_loop")
    /\ IF idx[c] <= Len(files[c])
       THEN /\ file_id' = [file_id EXCEPT ![c] = files[c][idx[c]].id]
            /\ Call(c, "download_file", "transfer_files_downloaded")
            /\ download_log' = [download_log EXCEPT ![c] = Append(@, idx[c])]
            /\ UNCHANGED <<ret, result, tfLocals, sharepoint_status>>
       ELSE /\ Finish(c, "transfer_files",
                      Value(CompletedOutcome(transferred_count[c], failed_files[c])))
            /\ UNCHANGED <<file_id, download_log>>
    /\ UNCHANGED <<cfgVars, graph_api, calls, folder_path, um_args, inflight,
                   containers, faults, fate, writes, ensured, listed, checks, heardVars>>

\* The claim-side reading of what a client call gave, kept as history.
DownloadGaveNothing(r) == r.raised \/ r.val = None \/ r.val = Some(<<>>)
\* The bytes a download_file call handed back, None when it handed back none.
Content(r) == IF r.raised THEN None ELSE r.val
UploadGaveFailure(r) == r.raised \/ r.val = FALSE

\* The loop body resumed with the download: a failed file, or the upload call.
transfer_files_downloaded(c) ==
    /\ At(c, "transfer_files_downloaded")
    /\ LET file_info == files[c][idx[c]]
       IN  IF ret[c].raised \/ ~Truthy(ret[c].val)
           THEN /\ failed_files' = [failed_files EXCEPT ![c] = AppendFailed(@, file_info)]
                /\ idx' = [idx EXCEPT ![c] = ContinueAfterFailure(@, Len(files[c]))]
                /\ Goto(c, "transfer_files_loop")
                /\ UNCHANGED <<file_data, um_args>>
           ELSE /\ file_data' = [file_data EXCEPT ![c] = ret[c].val[1]]
                /\ um_args' = [um_args EXCEPT ![c] =
                       [container_name |-> config[c]["blob_container"],
                        blob_name |-> BlobName(file_info),
                        file_data |-> ret[c].val[1],
                        metadata |-> Metadata(file_info, ret[c].val[1])]]
                /\ Call(c, "upload_with_metadata", "transfer_files_uploaded")
                /\ UNCHANGED <<failed_files, idx>>
    /\ fate' = [fate EXCEPT ![c] =
                  IF DownloadGaveNothing(ret[c]) THEN Append(@, "failed") ELSE @]
    /\ got' = [got EXCEPT ![c] = Append(@, Content(ret[c]))]
    /\ UNCHANGED <<cfgVars, graph_api, ret, result, calls, folder_path, file_id, files,
                   transferred_count, sharepoint_status, inflight, containers, faults,
                   download_log, writes, ensured, listed, checks, listing, token_ok>>

\* The loop body resumed with the upload's answer.
transfer_files_uploaded(c) ==
    /\ At(c, "transfer_files_uploaded")
    /\ LET after == AfterUpload(ret[c], transferred_count[c], failed_files[c],
                                files[c][idx[c]])
       IN  /\ transferred_count' = [transferred_count EXCEPT ![c] = after.count]
           /\ failed_files' = [failed_files EXCEPT ![c] = after.failed]
           /\ idx' = [idx EXCEPT ![c] =
                        IF after.ok THEN @ + 1 ELSE ContinueAfterFailure(@, Len(files[c]))]
    /\ file_data' = [file_data EXCEPT ![c] = <<>>]
    /\ Goto(c, "transfer_files_loop")
    /\ fate' = [fate EXCEPT ![c] =
                  Append(@, IF UploadGaveFailure(ret[c]) THEN "failed" ELSE "ok")]
    /\ UNCHANGED <<cfgVars, graph_api, ret, result, calls, argVars, files,
                   sharepoint_status, inflight, containers, faults, download_log,
                   writes, ensured, listed, checks, heardVars>>

\* The dict test_connection returns from its except clause.
ConnectionError(e) ==
    [sharepoint |-> FALSE, azure_blob |-> FALSE, overall |-> FALSE, error |-> e]

\* Mutant: overall is the OR of the two statuses.
ConnectionStatus_either(sharepoint, blob) ==
    [sharepoint |-> sharepoint, azure_blob |-> blob, overall |-> sharepoint \/ blob]

\* The dict test_connection returns when both checks answered.
ConnectionStatus(sharepoint, blob) ==
    [sharepoint |-> sharepoint, azure_blob |-> blob, overall |-> sharepoint /\ blob]

\* What the account-level list_containers may give; "uncaught" is
\* asyncio.to_thread itself failing.
ListContainersOutcomes ==
    {[ok |-> TRUE, error |-> [type |-> "none"]]}
    \cup (IF faults
          THEN {[ok |-> FALSE, error |-> AzureError(403)],
                [ok |-> FALSE, error |-> [type |-> "uncaught"]]}
          ELSE {})

\* The claim-side reading of what a check gave, kept as history.
Gave(r) == IF r.raised THEN "raised" ELSE IF r.val THEN "true" ELSE "false"

\* A caller invokes test_connection(); the first await is the source check.
test_connection(c) ==
    /\ At(c, "idle")
    /\ calls[c] < MaxCalls
    /\ calls' = [calls EXCEPT ![c] = @ + 1]
    /\ pc' = [pc EXCEPT ![c] = <<"graph_test_connection", "test_connection_sharepoint">>]
    /\ result' = [result EXCEPT ![c] = Pending("test_connection")]
    /\ ResetHistory(c)
    /\ UNCHANGED <<cfgVars, graph_api, ret, argVars, tfLocals, sharepoint_status,
                   inflight, containers, faults>>

\* test_connection resumed with the source status; then the destination
\* check is handed to a thread.
test_connection_sharepoint(c) ==
    /\ At(c, "test_connection_sharepoint")
    /\ IF ret[c].raised
       THEN /\ Finish(c, "test_connection", Value(ConnectionError(ret[c].val)))
            /\ UNCHANGED inflight
       ELSE /\ sharepoint_status' = [sharepoint_status EXCEPT ![c] = ret[c].val]
            /\ Send(c, [op |-> "list_containers"])
            /\ Goto(c, "test_connection_blob")
            /\ UNCHANGED <<ret, result, tfLocals>>
    /\ checks' = [checks EXCEPT ![c].source = Gave(ret[c])]
    /\ UNCHANGED <<cfgVars, graph_api, calls, argVars, containers, faults,
                   download_log, fate, writes, ensured, listed, heardVars>>

\* BlobUploadService.test_connection in its thread, and the dict returned.
test_connection_blob(c) ==
    /\ At(c, "test_connection_blob")
    /\ \E o \in ListContainersOutcomes :
         /\ IF ~o.ok /\ o.error.type = "uncaught"
            THEN Finish(c, "test_connection", Value(ConnectionError(<<"to_thread">>)))
            ELSE Finish(c, "test_connection",
                        Value(ConnectionStatus(sharepoint_status[c], o.ok)))
         /\ checks' = [checks EXCEPT ![c].destination =
                          IF o.ok THEN "true"
                          ELSE IF o.error.type = "uncaught" THEN "raised" ELSE "false"]
    /\ Receive(c, "list_containers")
    /\ UNCHANGED <<cfgVars, graph_api, calls, argVars, containers, faults,
                   download_log, fate, writes, ensured, listed, heardVars>>

\* A caller invokes one of the source client's four public methods, having
\* made fewer than bound calls.
CallSourceClient(c, bound) ==
    /\ At(c, "idle")
    /\ calls[c] < bound
    /\ calls' = [calls EXCEPT ![c] = @ + 1]
    /\ \E method \in {"get_access_token", "list_files", "download_file",
                      "graph_test_connection"},
          path \in FolderPaths, item \in {i \in Items : IsFile(i)} :
         /\ folder_path' = [folder_path EXCEPT ![c] = path]
         /\ file_id' = [file_id EXCEPT ![c] = item.id]
         /\ pc' = [pc EXCEPT ![c] = <<method, "graph_api_returned">>]
    /\ result' = [result EXCEPT ![c] = Pending("graph_api")]
    /\ ResetHistory(c)
    /\ UNCHANGED <<cfgVars, graph_api, ret, um_args, tfLocals, sharepoint_status,
                   inflight, containers, faults>>

\* A caller of the coordinator uses its source client directly.
graph_api_call(c) == CallSourceClient(c, MaxCalls)

\* A caller that holds nothing but the source client.
source_client_call(c) == CallSourceClient(c, MaxClientCalls)

graph_api_returned(c) ==
    /\ At(c, "graph_api_returned")
    /\ Finish(c, "graph_api", ret[c])
    /\ UNCHANGED <<cfgVars, graph_api, calls, argVars, inflight, containers, faults,
                   histVars>>

\* -------------------------------------------- two coordinators, one account
\* A caller invokes upload_with_metadata on a coordinator's destination client.
call_upload_with_metadata(c) ==
    /\ At(c, "idle")
    /\ calls[c] < MaxCalls
    /\ calls' = [calls EXCEPT ![c] = @ + 1]
    /\ \E item \in {i \in Items : IsFile(i)}, data \in Contents \ {<<>>} :
         um_args' = [um_args EXCEPT ![c] =
             [container_name |-> config[c]["blob_container"],
              blob_name |-> BlobName(FileEntry(item)),
              file_data |-> data,
              metadata |-> Metadata(FileEntry(item), data)]]
    /\ pc' = [pc EXCEPT ![c] = <<"upload_with_metadata", "upload_returned">>]
    /\ result' = [result EXCEPT ![c] = Pending("upload_with_metadata")]
    /\ ResetHistory(c)
    /\ UNCHANGED <<cfgVars, graph_api, ret, folder_path, file_id, tfLocals,
                   sharepoint_status, inflight, containers, faults>>

upload_returned(c) ==
    /\ At(c, "upload_returned")
    /\ Finish(c, "upload_with_metadata", ret[c])
    /\ UNCHANGED <<cfgVars, graph_api, calls, argVars, inflight, containers, faults,
                   histVars>>

\* ------------------------------------------------------------ specifications
Constructed(url) ==
    LET cfg == GoodConfig(url)
    IN  [config |-> cfg,
         graph_api |-> NewSharePointGraphAPI(cfg["tenant_id"], cfg["client_id"],
                           decrypt_string(cfg["client_secret"]).val,
                           cfg["sharepoint_site_url"]),
         blob_service |-> NewBlobUploadService(
                              decrypt_string(cfg["connection_string"]).val).val]

InitFrames ==
    /\ ret = [c \in Coordinators |-> Value(<<>>)]
    /\ result = [c \in Coordinators |-> NoResult]
    /\ calls = [c \in Coordinators |-> 0]
    /\ folder_path = [c \in Coordinators |-> <<"/">>]
    /\ file_id = [c \in Coordinators |-> <<>>]
    /\ um_args = [c \in Coordinators |-> <<>>]
    /\ files = [c \in Coordinators |-> <<>>]
    /\ idx = [c \in Coordinators |-> 0]
    /\ transferred_count = [c \in Coordinators |-> 0]
    /\ failed_files = [c \in Coordinators |-> <<>>]
    /\ file_data = [c \in Coordinators |-> <<>>]
    /\ sharepoint_status = [c \in Coordinators |-> FALSE]
    /\ inflight = [c \in Coordinators |-> {}]
    /\ download_log = [c \in Coordinators |-> <<>>]
    /\ fate = [c \in Coordinators |-> <<>>]
    /\ writes = [c \in Coordinators |-> <<>>]
    /\ ensured = [c \in Coordinators |-> "unchecked"]
    /\ listed = [c \in Coordinators |-> None]
    /\ checks = [c \in Coordinators |-> NoChecks]
    /\ got = [c \in Coordinators |-> <<>>]
    /\ listing = [c \in Coordinators |-> NothingHeard("uncalled")]
    /\ token_ok = [c \in Coordinators |-> FALSE]

InitConstructed(url) ==
    /\ config = [c \in Coordinators |-> Constructed(url).config]
    /\ graph_api = [c \in Coordinators |-> Some(Constructed(url).graph_api)]
    /\ blob_service = [c \in Coordinators |-> Some(Constructed(url).blob_service)]
    /\ ctor_error = [c \in Coordinators |-> None]
    /\ decrypt_calls = [c \in Coordinators |-> 2]

\* One constructed coordinator, called by one caller, over services that may fail.
Init ==
    /\ \E url \in SiteUrls : InitConstructed(url)
    /\ pc = [c \in Coordinators |-> IF c = 1 THEN <<"idle">> ELSE <<"off">>]
    /\ containers \in {{}, {<<"files">>}}
    /\ faults = TRUE
    /\ InitFrames

Step(c) ==
        \/ transfer_files(c)
        \/ transfer_files_listed(c)
        \/ transfer_files_loop(c)
        \/ transfer_files_downloaded(c)
        \/ transfer_files_uploaded(c)
        \/ test_connection(c)
        \/ test_connection_sharepoint(c)
        \/ test_connection_blob(c)
        \/ graph_api_call(c)
        \/ graph_api_returned(c)
        \/ graph_test_connection(c)
        \/ graph_test_connection_token(c)
        \/ get_access_token(c)
        \/ get_access_token_post(c)
        \/ list_files(c)
        \/ list_files_token(c)
        \/ list_files_response(c)
        \/ download_file(c)
        \/ download_file_token(c)
        \/ download_file_response(c)
        \/ upload_with_metadata(c)
        \/ get_container_properties(c)
        \/ create_container(c)
        \/ upload_blob(c)

Next == \E c \in Coordinators : Step(c)

Spec == Init /\ [][Next]_vars

\* The constructor, run on every configuration.
CtorInit ==
    /\ config \in [Coordinators -> Configs]
    /\ config[2] = GoodConfig(SiteUrlWithSite)
    /\ graph_api = [c \in Coordinators |-> None]
    /\ blob_service = [c \in Coordinators |-> None]
    /\ ctor_error = [c \in Coordinators |-> None]
    /\ decrypt_calls = [c \in Coordinators |-> 0]
    /\ pc = [c \in Coordinators |-> IF c = 1 THEN <<"__init__">> ELSE <<"off">>]
    /\ containers = {}
    /\ faults = TRUE
    /\ InitFrames

CtorNext == \E c \in Coordinators : _validate_config(c) \/ _initialize_services(c)

CtorSpec == CtorInit /\ [][CtorNext]_vars

\* Two constructed coordinators uploading into one account whose container
\* does not exist yet; the services answer every request truthfully.
RaceInit ==
    /\ InitConstructed(SiteUrlWithSite)
    /\ pc = [c \in Coordinators |-> <<"idle">>]
    /\ containers = {}
    /\ faults = FALSE
    /\ InitFrames

RaceNext ==
    \E c \in Coordinators :
        \/ call_upload_with_metadata(c)
        \/ upload_with_metadata(c)
        \/ get_container_properties(c)
        \/ create_container(c)
        \/ upload_blob(c)
        \/ upload_returned(c)

RaceSpec == RaceInit /\ [][RaceNext]_vars

\* The source client on its own, over an identity provider and a library
\* that may fail.
ClientInit ==
    /\ \E url \in SiteUrls : InitConstructed(url)
    /\ pc = [c \in Coordinators |-> IF c = 1 THEN <<"idle">> ELSE <<"off">>]
    /\ containers = {}
    /\ faults = TRUE
    /\ InitFrames

ClientNext ==
    \E c \in Coordinators :
        \/ source_client_call(c)
        \/ graph_api_returned(c)
        \/ graph_test_connection(c)
        \/ graph_test_connection_token(c)
        \/ get_access_token(c)
        \/ get_access_token_post(c)
        \/ list_files(c)
        \/ list_files_token(c)
        \/ list_files_response(c)
        \/ download_file(c)
        \/ download_file_token(c)
        \/ download_file_response(c)

ClientSpec == ClientInit /\ [][ClientNext]_vars

\* -------------------------------------------------------------------- claims
Returned(c, op) == result[c].op = op /\ result[c].done
Called(c, op) == result[c].op = op /\ ~result[c].done

\* A transfer_files call that returned after a non-empty listing.
Completed(c) ==
    /\ Returned(c, "transfer_files")
    /\ listed[c] # None
    /\ listed[c][1] # <<>>

RECURSIVE FailedNames(_, _)
\* The names whose file failed, in listing order.
FailedNames(names, fates) ==
    IF names = <<>> \/ fates = <<>> THEN <<>>
    ELSE (IF Head(fates) = "failed" THEN <<Head(names)>> ELSE <<>>)
         \o FailedNames(Tail(names), Tail(fates))

\* C1: whatever the client calls give (a list, nothing or an exception from
\* the listing; content, nothing or an exception from each download; True,
\* False or an exception from each upload), a transfer_files call under way
\* always has a next step, and what it hands its caller when it ends is an
\* outcome dict, never an exception.
C1_TransferAlwaysReturnsOutcome ==
    \A c \in Coordinators :
        /\ Called(c, "transfer_files") => ENABLED Step(c)
        /\ Returned(c, "transfer_files") =>
              ~result[c].raised /\ "success" \in DOMAIN result[c].val

\* C1 witness: a call whose listing raised has returned its outcome.
C1_Witness ==
    /\ Returned(1, "transfer_files")
    /\ listed[1] = None
    /\ ~result[1].raised
    /\ ~result[1].val.success

\* C2: after a non-empty listing of N files, transfer_files returns
\* success=true, transferred_count = N minus the number of failed files, and
\* failed_files = the names of exactly the failed files, each once, in
\* listing order; so the two add up to N.
C2_CountsAndFailedNames ==
    \A c \in Coordinators :
        Completed(c) =>
            LET names == listed[c][1]
                N == Len(names)
                v == result[c].val
            IN  /\ ~result[c].raised
                /\ v.success = TRUE
                /\ Len(fate[c]) = N
                /\ v.transferred_count
                     = N - Cardinality({i \in 1..N : fate[c][i] = "failed"})
                /\ v.failed_files = FailedNames(names, fate[c])
                /\ v.transferred_count + Len(v.failed_files) = N

\* C2 witness: a call returned with one file transferred and one failed.
C2_Witness ==
    /\ Completed(1)
    /\ result[1].val.transferred_count = 1
    /\ Len(result[1].val.failed_files) = 1
    /\ fate[1] = <<"failed", "ok">>

\* C3: a failed file never stops the loop: when transfer_files returns after
\* a listing f1..fN, download_file was called for every listed file, once
\* each, in listing order, and while the loop runs the downloads so far are
\* those of the first files, in order.
C3_EveryFileDownloaded ==
    \A c \in Coordinators :
        /\ Completed(c) =>
              download_log[c] = [i \in 1..Len(listed[c][1]) |-> i]
        /\ (Called(c, "transfer_files") /\ files[c] # <<>>) =>
              /\ download_log[c] = [i \in 1..Len(download_log[c]) |-> i]
              /\ idx[c] <= Len(files[c]) + 1
              /\ Len(download_log[c]) \in {idx[c] - 1, idx[c]}

\* C3 witness: the first of two files failed and the second was downloaded.
C3_Witness ==
    /\ Completed(1)
    /\ Len(listed[1][1]) = 2
    /\ fate[1][1] = "failed"
    /\ download_log[1] = <<1, 2>>

\* C4: on an empty listing transfer_files returns success=true,
\* transferred_count=0, the no-files message and failed_files = [].
C4_EmptyListingOutcome ==
    \A c \in Coordinators :
        (Returned(c, "transfer_files") /\ listed[c] = Some(<<>>)) =>
            LET v == result[c].val
            IN  /\ v.success = TRUE
                /\ v.transferred_count = 0
                /\ v.message = <<"No files found for transfer">>
                /\ "failed_files" \in DOMAIN v
                /\ v.failed_files = <<>>

OutcomeFields == {"success", "message", "transferred_count", "failed_files", "timestamp"}

\* C5: every outcome transfer_files returns, on every return path, carries
\* the five fields success, message, transferred_count, failed_files and
\* timestamp.
C5_OutcomeWellFormed ==
    \A c \in Coordinators :
        Returned(c, "transfer_files") =>
            ~result[c].raised /\ OutcomeFields \subseteq DOMAIN result[c].val

Missing(c) == RequiredSet \ DOMAIN config[c]

\* C6: a configuration that lacks a required key makes the constructor fail
\* with an error naming exactly the missing keys, each once, before any
\* secret is decrypted and before either client is constructed.
C6_MissingKeysRejected ==
    \A c \in Coordinators :
        (Missing(c) # {} /\ ~At(c, "__init__")) =>
            /\ pc[c] = <<"unconstructed">>
            /\ ctor_error[c] # None
            /\ ctor_error[c][1].type = "ValueError"
            /\ {ctor_error[c][1].fields[i] : i \in DOMAIN ctor_error[c][1].fields}
                 = Missing(c)
            /\ Len(ctor_error[c][1].fields) = Cardinality(Missing(c))
            /\ decrypt_calls[c] = 0
            /\ graph_api[c] = None
            /\ blob_service[c] = None

\* C6 witness: the constructor rejected a configuration lacking two keys.
C6_Witness ==
    /\ Missing(1) = {"client_secret", "blob_container"}
    /\ ctor_error[1] # None
    /\ ctor_error[1][1].fields = <<"client_secret", "blob_container">>

\* C7: upload_blob is outstanding only after, in the same call, the account
\* said the container exists or created it after saying it was missing; and
\* when the check failed with another error, neither a create nor a write is
\* attempted and upload_with_metadata returns False without raising.
C7_WriteOnlyAfterContainerCheck ==
    \A c \in Coordinators :
        /\ \A r \in inflight[c] :
              r.op = "upload_blob" => ensured[c] \in {"exists", "created"}
        /\ ensured[c] = "error" =>
              /\ \A r \in inflight[c] : r.op \notin {"upload_blob", "create_container"}
              /\ At(c, "transfer_files_uploaded") =>
                    ~ret[c].raised /\ ret[c].val = FALSE

\* C7 witness: in one call a file was written, and then the check of the
\* next upload failed and that upload returned False.
C7_Witness ==
    /\ At(1, "transfer_files_uploaded")
    /\ ensured[1] = "error"
    /\ Len(writes[1]) = 1
    /\ ~ret[1].raised
    /\ ret[1].val = FALSE

\* C8: two coordinators uploading to one container that does not exist yet:
\* under every interleaving no upload_with_metadata call returns False (or
\* raises), and once one returned the container exists.
C8_ContainerCheckSafeToRace ==
    \A c \in Coordinators :
        Returned(c, "upload_with_metadata") =>
            /\ ~result[c].raised
            /\ result[c].val = TRUE
            /\ um_args[c].container_name \in containers

\* C9: test_connection never raises; overall is true exactly when both
\* checks returned true; when either check raised, sharepoint, azure_blob and
\* overall are false and an error field is present.
C9_OverallIffBoth ==
    \A c \in Coordinators :
        Returned(c, "test_connection") =>
            LET v == result[c].val
                raised == "raised" \in {checks[c].source, checks[c].destination}
            IN  /\ ~result[c].raised
                /\ v.overall <=> (checks[c].source = "true" /\ checks[c].destination = "true")
                /\ raised => /\ v.sharepoint = FALSE
                             /\ v.azure_blob = FALSE
                             /\ v.overall = FALSE
                             /\ "error" \in DOMAIN v

\* C9 witness: the source check returned true and the destination check raised.
C9_Witness ==
    /\ Returned(1, "test_connection")
    /\ checks[1] = [source |-> "true", destination |-> "raised"]
    /\ "error" \in DOMAIN result[1].val

\* C10: a coordinator has at most one request outstanding at any time, and
\* the download of file k+1 starts only when files 1..k each have their
\* upload result or recorded failure.
C10_OneRequestAtATime ==
    \A c \in Coordinators :
        /\ Cardinality(inflight[c]) <= 1
        /\ Len(fate[c]) <= Len(download_log[c])
        /\ download_log[c] # <<>> => Len(fate[c]) >= Len(download_log[c]) - 1
        /\ (\E r \in inflight[c] : r.op = "download") /\ Called(c, "transfer_files") =>
              transferred_count[c] + Len(failed_files[c]) = Len(download_log[c]) - 1

\* C10 witness: the download of the second file is outstanding.
C10_Witness ==
    /\ Called(1, "transfer_files")
    /\ \E r \in inflight[1] : r.op = "download"
    /\ Len(download_log[1]) = 2
    /\ Len(fate[1]) = 1

DigitValue(ch) ==
    CASE ch = "0" -> 0 [] ch = "1" -> 1 [] ch = "2" -> 2 [] ch = "3" -> 3
      [] ch = "4" -> 4 [] ch = "5" -> 5 [] ch = "6" -> 6 [] ch = "7" -> 7
      [] ch = "8" -> 8 [] ch = "9" -> 9 [] OTHER -> -1

RECURSIVE DecimalValue(_)
\* The number a string of decimal digits denotes.
DecimalValue(d) ==
    IF d = <<>> THEN 0 ELSE 10 * DecimalValue(SubSeq(d, 1, Len(d) - 1)) + DigitValue(d[Len(d)])

\* d is the decimal string of n: digits only, no leading zero, value n.
IsDecimalOf(d, n) ==
    /\ d # <<>>
    /\ \A i \in DOMAIN d : DigitValue(d[i]) >= 0
    /\ Len(d) > 1 => d[1] # "0"
    /\ DecimalValue(d) = n

\* C11: every object transfer_files writes goes to the configured
\* blob_container, has the key "sharepoint/" + the name of a listed file
\* whose download gave content, holds that content, and carries a file_size
\* that is the decimal string of the number of bytes downloaded for that file.
C11_WrittenObjectKeyAndSize ==
    \A c \in Coordinators :
        result[c].op = "transfer_files" =>
            \A k \in DOMAIN writes[c] :
                LET w == writes[c][k]
                IN  /\ w.container = config[c]["blob_container"]
                    /\ listed[c] # None
                    /\ \E i \in DOMAIN got[c] :
                          /\ i <= Len(listed[c][1])
                          /\ got[c][i] # None
                          /\ got[c][i][1] # <<>>
                          /\ w.blob = <<"sharepoint/">> \o listed[c][1][i]
                          /\ w.data = got[c][i][1]
                          /\ IsDecimalOf(w.metadata.file_size, Len(got[c][i][1]))

\* C11 witness: a call returned after writing a 1-byte a.txt and a 12-byte
\* c.txt.
C11_Witness ==
    /\ Returned(1, "transfer_files")
    /\ Len(writes[1]) = 2
    /\ writes[1][1].blob = <<"sharepoint/", "a.txt">>
    /\ writes[1][1].metadata.file_size = <<"1">>
    /\ writes[1][2].blob = <<"sharepoint/", "c.txt">>
    /\ writes[1][2].metadata.file_size = <<"1", "2">>

\* C12: the metadata written for a file carries the last-modified value of
\* its listing entry: when the entry list_files produced has a last-modified
\* timestamp, sharepoint_modified_time of the written object equals it, and
\* it is the empty string only when the entry has none.
C12_ModifiedTimeCarried ==
    \A c \in Coordinators :
        (/\ At(c, "transfer_files_uploaded")
         /\ ~ret[c].raised
         /\ ret[c].val = TRUE
         /\ writes[c] # <<>>) =>
            LET w == writes[c][Len(writes[c])]
                entry == files[c][idx[c]]
            IN  /\ entry.last_modified # None =>
                      w.metadata.sharepoint_modified_time = entry.last_modified[1]
                /\ w.metadata.sharepoint_modified_time = <<>> =>
                      entry.last_modified = None

\* A list_files call has handed its result to its caller, which has not
\* resumed yet.
ListReturned(c) ==
    /\ listing[c].kind # "uncalled"
    /\ At(c, "graph_api_returned") \/ At(c, "transfer_files_listed")

\* The file-type items of a response, in its order.
FilesOf(value) == SelectSeq(value, LAMBDA item : "file" \in DOMAIN item)

RootChildrenUrl ==
    <<"https://graph.microsoft.com/v1.0", "/sites/", "t", "/drive/root/children">>
NestedChildrenUrl(path) ==
    <<"https://graph.microsoft.com/v1.0", "/sites/", "t", "/drive/root:/">>
    \o path \o <<":/children">>

\* C13: list_files returns exactly the file-type items of a 200 response, in
\* order, and no folder-type item, for the root path and for a nested path
\* alike; the two differ only in the URL of the request; and on an error, a
\* non-200 response, a response without items, a missing token or a site
\* identifier that cannot be resolved it returns the empty list.
C13_ListFilesOnlyFiles ==
    \A c \in Coordinators :
        /\ (ListReturned(c) /\ listing[c].kind # "uncaught") =>
              LET heard == listing[c]
              IN  /\ ~ret[c].raised
                  /\ IF /\ heard.kind = "response"
                        /\ heard.status = 200
                        /\ "value" \in DOMAIN heard.json
                     THEN LET expected == FilesOf(heard.json.value)
                          IN  /\ Len(ret[c].val) = Len(expected)
                              /\ \A i \in DOMAIN expected :
                                    /\ ret[c].val[i].id = expected[i].id
                                    /\ ret[c].val[i].name = expected[i].name
                              /\ \A i \in DOMAIN ret[c].val :
                                    \A j \in DOMAIN heard.json.value :
                                       "folder" \in DOMAIN heard.json.value[j] =>
                                          ret[c].val[i].id # heard.json.value[j].id
                     ELSE ret[c].val = <<>>
        /\ \A r \in inflight[c] :
              r.op = "list" =>
                 /\ Truthy(Token(c))
                 /\ config[c]["sharepoint_site_url"] = SiteUrlWithSite
                 /\ r.headers = [Authorization |-> <<"Bearer ", "tok">>]
                 /\ r.url = IF folder_path[c] = <<"/">> THEN RootChildrenUrl
                            ELSE NestedChildrenUrl(folder_path[c])

\* C13 witness: a nested-path listing of a folder and a file returned the file.
C13_Witness ==
    /\ ListReturned(1)
    /\ folder_path[1] = <<"Docs", "/", "2024">>
    /\ listing[1].kind = "response"
    /\ listing[1].status = 200
    /\ "value" \in DOMAIN listing[1].json
    /\ Len(listing[1].json.value) = 2
    /\ "folder" \in DOMAIN listing[1].json.value[1]
    /\ ~ret[1].raised
    /\ Len(ret[1].val) = 1
    /\ ret[1].val[1].name = <<"a.txt">>

\* A required field the configuration holds with the empty string as value.
EmptyFields(c) == {k \in RequiredSet \cap DOMAIN config[c] : config[c][k] = <<>>}

\* C14: a configuration holding a required field that is present but empty
\* never gets a source client or a destination client, and its construction
\* ends in an error.
C14_EmptyFieldsRejected ==
    \A c \in Coordinators :
        EmptyFields(c) # {} =>
            /\ graph_api[c] = None
            /\ blob_service[c] = None
            /\ (~At(c, "__init__") /\ ~At(c, "_initialize_services")) => ctor_error[c] # None

\* The token request under way was made by list_files or download_file.
LazyTokenRequest(c) ==
    /\ Len(pc[c]) >= 2
    /\ pc[c][1] \in {"get_access_token", "get_access_token_post"}
    /\ pc[c][2] \in {"list_files_token", "download_file_token"}

\* C15: list_files and download_file ask for a token only when none is
\* cached, and once a token request of the client has succeeded no later
\* list_files or download_file call asks for another.
C15_TokenFetchedOnce ==
    \A c \in Coordinators :
        LazyTokenRequest(c) => ~Truthy(Token(c)) /\ ~token_ok[c]

\* C16: once the source client holds a token it holds one ever after,
\* whatever its methods are called with and whatever the identity provider
\* answers.
C16_TokenNeverInvalidated ==
    \A c \in Coordinators : token_ok[c] => Truthy(Token(c))

\* A transfer_files call has returned and its list_files call had raised.
ListingRaised(c) == Returned(c, "transfer_files") /\ listed[c] = None

\* C17: when list_files raises, transfer_files returns success=false with a
\* message that carries the failure, transferred_count=0 and failed_files=[],
\* and that call has attempted no download, no container check and no upload.
C17_ListingRaisedOutcome ==
    \A c \in Coordinators :
        ListingRaised(c) =>
            /\ ~result[c].raised
            /\ result[c].val.success = FALSE
            /\ \E i \in DOMAIN result[c].val.message :
                  result[c].val.message[i] = "list_files"
            /\ result[c].val.transferred_count = 0
            /\ "failed_files" \in DOMAIN result[c].val
            /\ result[c].val.failed_files = <<>>
            /\ download_log[c] = <<>>
            /\ got[c] = <<>>
            /\ ensured[c] = "unchecked"
            /\ writes[c] = <<>>

\* C17 witness: the second call of a coordinator, made with a token cached,
\* returned after its listing raised.
C17_Witness ==
    /\ ListingRaised(1)
    /\ calls[1] = 2
    /\ Truthy(Token(1))
    /\ result[1].val.message = <<"Transfer failed: ", "list_files">>
    /\ result[1].val.failed_files = <<>>

\* The uploads of a call that returned True so far.
UploadsReturnedTrue(c) == Cardinality({i \in DOMAIN fate[c] : fate[c][i] = "ok"})

\* C18: on every return path of transfer_files, the success=false path
\* included, transferred_count is the number of uploads that returned True
\* in that call, which is the number of objects it wrote; so a
\* transferred_count of 0 means the call wrote nothing.  The running count
\* agrees at the head of every loop iteration.
C18_CountIsUploadsReturnedTrue ==
    \A c \in Coordinators :
        /\ Returned(c, "transfer_files") =>
              /\ ~result[c].raised
              /\ result[c].val.transferred_count = UploadsReturnedTrue(c)
              /\ result[c].val.transferred_count = Len(writes[c])
              /\ result[c].val.transferred_count = 0 => writes[c] = <<>>
        /\ (Called(c, "transfer_files") /\ At(c, "transfer_files_loop")) =>
              /\ transferred_count[c] = UploadsReturnedTrue(c)
              /\ transferred_count[c] = Len(writes[c])

\* C18 witness: a call returned after one upload that returned True and one
\* upload, of downloaded content, that did not.
C18_Witness ==
    /\ Returned(1, "transfer_files")
    /\ fate[1] = <<"ok", "failed">>
    /\ Len(got[1]) = 2
    /\ Truthy(got[1][2])
    /\ Len(writes[1]) = 1
    /\ result[1].val.transferred_count = 1

\* The flow of c is inside the upload of a file, or just back from it.
Uploading(c) ==
    \/ At(c, "upload_with_metadata")
    \/ At(c, "get_container_properties")
    \/ At(c, "create_container")
    \/ At(c, "upload_blob")
    \/ At(c, "transfer_files_uploaded")

\* The positions of a call whose download succeeded with zero bytes.
ZeroByteDownloads(c) == {i \in DOMAIN got[c] : got[c][i] = Some(<<>>)}

\* C19: transfer_files attempts an upload only for a file whose download
\* returned non-empty content; a download that returned zero bytes puts the
\* file's name in failed_files and writes nothing, so no object written has
\* empty content or file_size "0".
C19_NoUploadOfEmptyContent ==
    \A c \in Coordinators :
        result[c].op = "transfer_files" =>
            /\ Uploading(c) =>
                  /\ got[c] # <<>>
                  /\ got[c][Len(got[c])] # None
                  /\ got[c][Len(got[c])][1] # <<>>
                  /\ um_args[c].file_data = got[c][Len(got[c])][1]
            /\ \A k \in DOMAIN writes[c] :
                  /\ writes[c][k].data # <<>>
                  /\ writes[c][k].metadata.file_size # <<"0">>
            /\ (Called(c, "transfer_files") /\ At(c, "transfer_files_loop")) =>
                  \A i \in ZeroByteDownloads(c) :
                     \E j \in DOMAIN failed_files[c] : failed_files[c][j] = files[c][i].name
            /\ (Returned(c, "transfer_files") /\ listed[c] # None) =>
                  \A i \in ZeroByteDownloads(c) :
                     \E j \in DOMAIN result[c].val.failed_files :
                        result[c].val.failed_files[j] = listed[c][1][i]

\* C19 witness: a call returned after a zero-byte download of its first file
\* and a write of its second.
C19_Witness ==
    /\ Returned(1, "transfer_files")
    /\ Len(got[1]) = 2
    /\ got[1][1] = Some(<<>>)
    /\ Len(writes[1]) = 1
    /\ result[1].val.failed_files = <<listed[1][1][1]>>
    /\ result[1].val.transferred_count = 1

====
